---- MODULE Spec2Model ----
(***************************************************************************)
(* Model of backend/main.py of the wellness navigator: the /coach handler  *)
(* with its LangGraph workflow (initial_node -> intent_classifier_node ->  *)
(* fitness_node | nutrition_node | resilience_node), the optional Supabase *)
(* sink, and the /sync webhook handler.                                    *)
(*                                                                         *)
(* Python strings that the code inspects character by character (the       *)
(* message and the keyword sets) are sequences of one-character strings;   *)
(* strings that the code only compares or tests for truthiness are TLA+    *)
(* strings.  Python's None is the value None below.  A CoachState is a     *)
(* function from the keys that are present to their values, as the         *)
(* TypedDict (total=False) is a dict.                                      *)
(***************************************************************************)
EXTENDS Integers, Sequences, FiniteSets, TLC

VARIABLES supabase_client, WEBHOOK_URL, pc, request, state, inserted,
          payload, posted, response, http_status

vars == <<supabase_client, WEBHOOK_URL, pc, request, state, inserted,
          payload, posted, response, http_status>>

----------------------------------------------------------------------------
(* Bounds and input sets *)

MaxFrags == 2

None == "<None>"

Fragments ==
    { <<"c","h","e","s","t"," ">>,
      <<"p","a","i","n">>,
      <<"F","A","I","N","T">>,
      <<"r","u","n">>,
      <<"M","e","a","l">>,
      <<"s","l","e","e","p">> }

RECURSIVE MessagesOf(_)
MessagesOf(n) ==
    IF n = 0 THEN { <<>> }
    ELSE LET shorter == MessagesOf(n - 1)
         IN  shorter \cup { m \o f : m \in shorter, f \in Fragments }

Messages == MessagesOf(MaxFrags)

FieldValues == { None, "", "set" }

FocusValues == { None, "", "fitness", "nutrition", "resilience", "yoga" }

CallerStamps == { None, "", "2025-05-05T05:05:05+00:00" }

NowStamps == { "2026-01-01T00:00:00+00:00" }

WebhookOutcomes == { "200", "404", "500", "timeout" }

SinkOutcomes == { "ok", "exception" }

----------------------------------------------------------------------------
(* Python helpers *)

Upper == <<"A","B","C","D","E","F","G","H","I","J","K","L","M",
           "N","O","P","Q","R","S","T","U","V","W","X","Y","Z">>
Lower == <<"a","b","c","d","e","f","g","h","i","j","k","l","m",
           "n","o","p","q","r","s","t","u","v","w","x","y","z">>

LowerChar(c) ==
    IF \E j \in 1..Len(Upper) : Upper[j] = c
    THEN Lower[CHOOSE j \in 1..Len(Upper) : Upper[j] = c]
    ELSE c

\* str.lower()
lower(s) == [i \in 1..Len(s) |-> LowerChar(s[i])]

\* k in s, for strings
Contains(s, k) ==
    \E i \in 1..(Len(s) - Len(k) + 1) : SubSeq(s, i, i + Len(k) - 1) = k

\* truthiness of an Optional[str]
Truthy(v) == v # None /\ v # ""

\* dict.get(key, default) and dict[key] = value
Get(d, k, default) == IF k \in DOMAIN d THEN d[k] ELSE default

Put(d, k, v) == [x \in (DOMAIN d) \cup {k} |-> IF x = k THEN v ELSE d[x]]

----------------------------------------------------------------------------
(* Module-level tables *)

SAFETY_KEYWORDS ==
    { <<"c","h","e","s","t"," ","p","a","i","n">>,
      <<"s","h","o","r","t","n","e","s","s"," ","o","f"," ","b","r","e","a","t","h">>,
      <<"s","u","i","c","i","d","a","l">>,
      <<"f","a","i","n","t">>,
      <<"f","a","i","n","t","e","d">> }

FITNESS_KEYWORDS ==
    { <<"w","o","r","k","o","u","t">>,
      <<"s","t","e","p","s">>,
      <<"m","u","s","c","l","e">>,
      <<"r","u","n">>,
      <<"c","a","r","d","i","o">>,
      <<"s","t","r","e","n","g","t","h">> }

NUTRITION_KEYWORDS ==
    { <<"c","a","l","o","r","i","e","s">>,
      <<"m","e","a","l">>,
      <<"w","a","t","e","r">>,
      <<"p","r","o","t","e","i","n">>,
      <<"f","i","b","e","r">>,
      <<"h","y","d","r","a","t","i","o","n">> }

RESILIENCE_KEYWORDS ==
    { <<"a","n","x","i","e","t","y">>,
      <<"s","l","e","e","p">>,
      <<"m","e","d","i","t","a","t","i","o","n">>,
      <<"s","t","r","e","s","s">>,
      <<"b","u","r","n","o","u","t">> }

SafetyWarning ==
    "Possible distress detected. Please contact emergency services or a licensed clinician immediately."

FitnessActions ==
    << "Plan 3-4 moderate sessions this week.",
       "Keep one rest or mobility day.",
       "Log steps daily to spot trends." >>

NutritionActions ==
    << "Aim for protein in each meal.",
       "Hydrate steadily across the day.",
       "Log meals to catch gaps in fiber." >>

ResilienceActions ==
    << "Schedule a consistent sleep window.",
       "Add a 5-minute breathing break.",
       "Limit screens 60 minutes before bed." >>

EmergencyActions ==
    << "If you are in immediate danger, contact local emergency services.",
       "Reach out to a licensed clinician for professional support." >>

RequiredFields == << "goal", "activity_level", "primary_metric" >>

----------------------------------------------------------------------------
(* Pure functions of main.py *)

classify_intent_nutritionFirst(message) ==
    LET lowered == lower(message)
    IN  IF \E k \in NUTRITION_KEYWORDS : Contains(lowered, k) THEN "nutrition"
        ELSE IF \E k \in FITNESS_KEYWORDS : Contains(lowered, k) THEN "fitness"
        ELSE IF \E k \in RESILIENCE_KEYWORDS : Contains(lowered, k) THEN "resilience"
        ELSE "fitness"

classify_intent(message) ==
    LET lowered == lower(message)
    IN  IF \E k \in FITNESS_KEYWORDS : Contains(lowered, k) THEN "fitness"
        ELSE IF \E k \in NUTRITION_KEYWORDS : Contains(lowered, k) THEN "nutrition"
        ELSE IF \E k \in RESILIENCE_KEYWORDS : Contains(lowered, k) THEN "resilience"
        ELSE "fitness"

detect_safety_caseSensitive(message) ==
    IF \E word \in SAFETY_KEYWORDS : Contains(message, word)
    THEN SafetyWarning
    ELSE None

detect_safety(message) ==
    LET lowered == lower(message)
    IN  IF \E word \in SAFETY_KEYWORDS : Contains(lowered, word)
        THEN SafetyWarning
        ELSE None

missing_field_lastFirst(st) ==
    LET miss == { i \in 1..Len(RequiredFields) :
                    ~Truthy(Get(st, RequiredFields[i], None)) }
    IN  IF miss = {} THEN None
        ELSE RequiredFields[CHOOSE i \in miss : \A j \in miss : i >= j]

missing_field(st) ==
    LET miss == { i \in 1..Len(RequiredFields) :
                    ~Truthy(Get(st, RequiredFields[i], None)) }
    IN  IF miss = {} THEN None
        ELSE RequiredFields[CHOOSE i \in miss : \A j \in miss : i <= j]

clarification_prompt(field) ==
    CASE field = "goal" ->
           "What's your primary wellness goal right now?"
      [] field = "activity_level" ->
           "How active have you been this week? (e.g., steps per day or minutes of movement)"
      [] field = "primary_metric" ->
           "What metric should we track for this goal? (e.g., steps, calories, sleep hours)"
      [] OTHER -> "Could you share more detail?"

recommendations_for_focus(focus) ==
    IF focus = "fitness" THEN FitnessActions
    ELSE IF focus = "nutrition" THEN NutritionActions
    ELSE ResilienceActions

\* The result of a call of log_to_supabase: the insert calls it made on the
\* client (with how each ended) and whether an exception left the function.
\* client is the module-level supabase_client: TRUE when one was created.
NoSinkCall == [inserts |-> <<>>, raised |-> FALSE]

log_to_supabase_noCatch(st, client, outcome, now) ==
    IF ~client THEN NoSinkCall
    ELSE IF ~(Truthy(Get(st, "goal", None))
              /\ Truthy(Get(st, "activity_level", None))
              /\ Truthy(Get(st, "primary_metric", None))) THEN NoSinkCall
    ELSE LET row == [user_name      |-> Get(st, "user_name", None),
                     focus_area     |-> Get(st, "focus_area", None),
                     primary_goal   |-> Get(st, "goal", None),
                     activity_level |-> Get(st, "activity_level", None),
                     health_metric  |-> Get(st, "primary_metric", None),
                     timestamp      |-> now]
         IN  [inserts |-> << [row |-> row, outcome |-> outcome] >>,
              raised  |-> (outcome = "exception")]

log_to_supabase(st, client, outcome, now) ==
    IF ~client THEN NoSinkCall
    ELSE IF ~(Truthy(Get(st, "goal", None))
              /\ Truthy(Get(st, "activity_level", None))
              /\ Truthy(Get(st, "primary_metric", None))) THEN NoSinkCall
    ELSE LET row == [user_name      |-> Get(st, "user_name", None),
                     focus_area     |-> Get(st, "focus_area", None),
                     primary_goal   |-> Get(st, "goal", None),
                     activity_level |-> Get(st, "activity_level", None),
                     health_metric  |-> Get(st, "primary_metric", None),
                     timestamp      |-> now]
         IN  \* except Exception: return
             [inserts |-> << [row |-> row, outcome |-> outcome] >>,
              raised  |-> FALSE]

----------------------------------------------------------------------------
(* Workflow nodes *)

start_node(st) ==
    Put(Put(st, "safety_flag", detect_safety(Get(st, "message", <<>>))),
        "ready_to_sync", FALSE)

intent_classifier_node_always(st) ==
    Put(st, "focus_area", classify_intent(Get(st, "message", <<>>)))

intent_classifier_node(st) ==
    IF ~Truthy(Get(st, "focus_area", None))
    THEN Put(st, "focus_area", classify_intent(Get(st, "message", <<>>)))
    ELSE st

\* wellness_node returns the node's state together with the sink call it made
wellness_node(st, client, outcome, now) ==
    LET missing == missing_field(st)
        s1 == Put(st, "missing_field", missing)
        s2 == Put(s1, "recommended_actions",
                  recommendations_for_focus(Get(s1, "focus_area", "fitness")))
    IN  IF Truthy(missing)
        THEN [state |-> Put(Put(s2, "next_question", clarification_prompt(missing)),
                            "ready_to_sync", FALSE),
              sink  |-> NoSinkCall]
        ELSE LET s3 == Put(Put(s2, "next_question", None), "ready_to_sync", TRUE)
             IN  [state |-> s3, sink |-> log_to_supabase(s3, client, outcome, now)]

router(st) ==
    LET f == Get(st, "focus_area", None)
        focus == IF Truthy(f) THEN f ELSE "fitness"
    IN  IF focus = "nutrition" THEN "nutrition_node"
        ELSE IF focus = "resilience" THEN "resilience_node"
        ELSE "fitness_node"

----------------------------------------------------------------------------
(* /coach: request to state, final state to response *)

CoachStateOf(req) ==
    [k \in {"user_name", "message", "goal", "activity_level",
            "primary_metric", "focus_area"} |-> req[k]]

CoachResponseOf_noOverride(result) ==
    [focus_area          |-> Get(result, "focus_area", "fitness"),
     ready_to_sync       |-> Get(result, "ready_to_sync", FALSE),
     missing_field       |-> Get(result, "missing_field", None),
     next_question       |-> Get(result, "next_question", None),
     recommended_actions |-> Get(result, "recommended_actions", <<>>),
     safety_flag         |-> Get(result, "safety_flag", None)]

CoachResponseOf(result) ==
    IF Truthy(Get(result, "safety_flag", None))
    THEN [focus_area          |-> Get(result, "focus_area", "fitness"),
          ready_to_sync       |-> FALSE,
          missing_field       |-> Get(result, "missing_field", None),
          next_question       |-> None,
          recommended_actions |-> EmergencyActions,
          safety_flag         |-> result["safety_flag"]]
    ELSE [focus_area          |-> Get(result, "focus_area", "fitness"),
          ready_to_sync       |-> Get(result, "ready_to_sync", FALSE),
          missing_field       |-> Get(result, "missing_field", None),
          next_question       |-> Get(result, "next_question", None),
          recommended_actions |-> Get(result, "recommended_actions", <<>>),
          safety_flag         |-> None]

----------------------------------------------------------------------------
(* /sync *)

\* iso_timestamp = payload.timestamp or datetime.now(timezone.utc).isoformat()
sync_iso_timestamp(p, now) == IF Truthy(p.timestamp) THEN p.timestamp ELSE now

\* body = payload.model_dump()
sync_body(p) ==
    [user_name     |-> p.user_name,
     focus_area    |-> p.focus_area,
     health_metric |-> p.health_metric,
     primary_goal  |-> p.primary_goal,
     timestamp     |-> p.timestamp]

----------------------------------------------------------------------------
(* The server: configuration is read once at import; requests are handled   *)
(* one at a time, each on a fresh state.                                    *)

Init ==
    /\ supabase_client \in BOOLEAN
    /\ WEBHOOK_URL \in { "", "https://hooks.example/wellness" }
    /\ pc = "idle"
    /\ request = <<>>
    /\ state = <<>>
    /\ inserted = <<>>
    /\ payload = <<>>
    /\ posted = <<>>
    /\ response = <<>>
    /\ http_status = 0

Accepting == pc = "idle"

\* coach(): lines 250-257, the state handed to coach_executor.invoke
CoachRequest ==
    /\ Accepting
    /\ \E m \in Messages, g \in FieldValues, a \in FieldValues,
          pm \in FieldValues, f \in FocusValues :
         LET req == [user_name      |-> "ana",
                     message        |-> m,
                     goal           |-> g,
                     activity_level |-> a,
                     primary_metric |-> pm,
                     focus_area     |-> f]
         IN  /\ request' = <<req>>
             /\ state' = CoachStateOf(req)
    /\ pc' = "initial_node"
    /\ inserted' = <<>>
    /\ payload' = <<>>
    /\ posted' = <<>>
    /\ response' = <<>>
    /\ http_status' = 0
    /\ UNCHANGED <<supabase_client, WEBHOOK_URL>>

InitialNode ==
    /\ pc = "initial_node"
    /\ state' = start_node(state)
    /\ pc' = "intent_classifier_node"
    /\ UNCHANGED <<supabase_client, WEBHOOK_URL, request, inserted, payload,
                   posted, response, http_status>>

\* the node and the conditional edge that leaves it
IntentClassifierNode ==
    /\ pc = "intent_classifier_node"
    /\ state' = intent_classifier_node(state)
    /\ pc' = router(state')
    /\ UNCHANGED <<supabase_client, WEBHOOK_URL, request, inserted, payload,
                   posted, response, http_status>>

\* the three terminal nodes all run wellness_node; an exception that leaves
\* the node leaves invoke() and coach(), and the request ends with a 500
TerminalNode(node) ==
    /\ pc = node
    /\ \E outcome \in SinkOutcomes, now \in NowStamps :
         LET r == wellness_node(state, supabase_client, outcome, now)
         IN  /\ inserted' = inserted \o r.sink.inserts
             /\ IF r.sink.raised
                THEN /\ state' = state
                     /\ pc' = "done"
                     /\ http_status' = 500
                ELSE /\ state' = r.state
                     /\ pc' = "END"
                     /\ http_status' = http_status
    /\ UNCHANGED <<supabase_client, WEBHOOK_URL, request, payload, posted,
                   response>>

FitnessNode == TerminalNode("fitness_node")

NutritionNode == TerminalNode("nutrition_node")

ResilienceNode == TerminalNode("resilience_node")

\* coach(): lines 261-281
CoachRespond ==
    /\ pc = "END"
    /\ response' = << CoachResponseOf(state) >>
    /\ http_status' = 200
    /\ pc' = "done"
    /\ UNCHANGED <<supabase_client, WEBHOOK_URL, request, state, inserted,
                   payload, posted>>

\* sync_milestone(): the whole handler
SyncMilestone ==
    /\ Accepting
    /\ \E ts \in CallerStamps, now \in NowStamps, outcome \in WebhookOutcomes :
         LET p == [user_name     |-> "ana",
                   focus_area    |-> "fitness",
                   health_metric |-> "steps",
                   primary_goal  |-> "set",
                   timestamp     |-> ts]
             iso_timestamp == sync_iso_timestamp(p, now)
             body == sync_body(p)
         IN  /\ payload' = <<p>>
             /\ IF WEBHOOK_URL = ""
                THEN /\ posted' = <<>>
                     /\ response' = << [status |-> "skipped",
                                        timestamp |-> iso_timestamp] >>
                     /\ http_status' = 200
                ELSE /\ posted' = << body >>
                     /\ IF outcome = "timeout"
                        THEN response' = <<>> /\ http_status' = 500
                        ELSE IF outcome \in { "404", "500" }
                        THEN /\ response' = << [detail |-> "Webhook delivery failed."] >>
                             /\ http_status' = 502
                        ELSE response' = << None >> /\ http_status' = 200
    /\ pc' = "done"
    /\ request' = <<>>
    /\ state' = <<>>
    /\ inserted' = <<>>
    /\ UNCHANGED <<supabase_client, WEBHOOK_URL>>

\* the handler has returned: the request-scoped values are dropped and the
\* server waits for the next request (uvicorn.run, line 303)
Return ==
    /\ pc = "done"
    /\ pc' = "idle"
    /\ request' = <<>>
    /\ state' = <<>>
    /\ inserted' = <<>>
    /\ payload' = <<>>
    /\ posted' = <<>>
    /\ response' = <<>>
    /\ http_status' = 0
    /\ UNCHANGED <<supabase_client, WEBHOOK_URL>>

Next ==
    \/ CoachRequest
    \/ InitialNode
    \/ IntentClassifierNode
    \/ FitnessNode
    \/ NutritionNode
    \/ ResilienceNode
    \/ CoachRespond
    \/ SyncMilestone
    \/ Return

Spec == Init /\ [][Next]_vars

----------------------------------------------------------------------------
(* Properties *)

Tags == { "fitness", "nutrition", "resilience" }

\* the request is a /coach request and its handler has returned
CoachDone == pc = "done" /\ request # <<>>

\* the workflow is past intent_classifier_node
Classified ==
    /\ request # <<>>
    /\ pc \in { "fitness_node", "nutrition_node", "resilience_node", "END", "done" }

EqIgnoreCase(c, d) ==
    c = d \/ \E j \in 1..Len(Upper) : {c, d} = {Upper[j], Lower[j]}

\* some distress phrase occurs in m at some position, in any letter case
HasDistress(m) ==
    \E w \in SAFETY_KEYWORDS :
        \E i \in 0..(Len(m) - Len(w)) :
            \A j \in 1..Len(w) : EqIgnoreCase(m[i + j], w[j])

AllPresent(req) ==
    Truthy(req.goal) /\ Truthy(req.activity_level) /\ Truthy(req.primary_metric)

\* C1: a /coach request whose message contains a distress phrase, in any
\* case and at any position, is answered with a non-null safety_flag,
\* ready_to_sync = false, next_question = null and the two-item emergency
\* list, whatever goal, activity_level, primary_metric and focus_area are.
C1_DistressOverride ==
    (CoachDone /\ HasDistress(request[1].message)) =>
        /\ http_status = 200
        /\ response # <<>>
        /\ response[1].safety_flag # None
        /\ response[1].ready_to_sync = FALSE
        /\ response[1].next_question = None
        /\ response[1].recommended_actions = EmergencyActions

\* an upper-case distress phrase behind other text, all fields supplied
C1_Witness ==
    /\ CoachDone
    /\ HasDistress(request[1].message)
    /\ ~(\E w \in SAFETY_KEYWORDS : Contains(request[1].message, w))
    /\ Len(request[1].message) > 5
    /\ AllPresent(request[1])
    /\ request[1].focus_area = "nutrition"
    /\ response # <<>>
    /\ response[1].recommended_actions = EmergencyActions

\* C2: the response's ready_to_sync is true exactly when goal,
\* activity_level and primary_metric are all non-empty and the message
\* raised no safety flag.
C2_ReadyToSyncIff ==
    CoachDone =>
        /\ response # <<>>
        /\ (response[1].ready_to_sync = TRUE) <=>
              (AllPresent(request[1]) /\ ~HasDistress(request[1].message))

C2_Witness ==
    /\ CoachDone
    /\ AllPresent(request[1])
    /\ ~HasDistress(request[1].message)
    /\ response # <<>>
    /\ response[1].ready_to_sync = TRUE

\* C3: the response's missing_field is the first of goal, activity_level,
\* primary_metric that is absent or empty, and null exactly when all three
\* are non-empty.
C3_MissingFieldPriority ==
    CoachDone =>
        /\ response # <<>>
        /\ LET req == request[1]
               mf  == response[1].missing_field
           IN  /\ ~Truthy(req.goal) => mf = "goal"
               /\ (Truthy(req.goal) /\ ~Truthy(req.activity_level))
                     => mf = "activity_level"
               /\ (Truthy(req.goal) /\ Truthy(req.activity_level)
                     /\ ~Truthy(req.primary_metric))
                     => mf = "primary_metric"
               /\ (mf = None) <=> AllPresent(req)

\* goal empty and primary_metric absent: goal is the one reported
C3_Witness ==
    /\ CoachDone
    /\ request[1].goal = ""
    /\ request[1].activity_level = "set"
    /\ request[1].primary_metric = None
    /\ response # <<>>
    /\ response[1].missing_field = "goal"

\* C4 (as stated): whenever the request supplies a focus_area, the classify
\* node leaves it unchanged and the response's focus_area is the supplied
\* value, whatever the message contains.
C4_SuppliedFocusKept ==
    (Classified /\ request[1].focus_area # None) =>
        /\ state["focus_area"] = request[1].focus_area
        /\ (pc = "done" /\ response # <<>>)
              => response[1].focus_area = request[1].focus_area

\* C4 (amended): whenever the request supplies a non-empty focus_area, the
\* classify node leaves it unchanged and the response's focus_area is the
\* supplied value, whatever the message contains.
C4_NonEmptyFocusKept ==
    (Classified /\ Truthy(request[1].focus_area)) =>
        /\ state["focus_area"] = request[1].focus_area
        /\ pc = "done" =>
              /\ response # <<>>
              /\ response[1].focus_area = request[1].focus_area

\* a supplied tag that the message's keywords would not have produced
C4_Witness ==
    /\ CoachDone
    /\ request[1].focus_area = "nutrition"
    /\ \E k \in FITNESS_KEYWORDS : Contains(lower(request[1].message), k)
    /\ response # <<>>
    /\ response[1].focus_area = "nutrition"

\* C5: once the workflow has completed, the state's and the response's
\* focus_area is one of fitness, nutrition, resilience, an unset or unknown
\* supplied value having been resolved to fitness.
C5_FocusIsATag ==
    CoachDone =>
        /\ state["focus_area"] \in Tags
        /\ response # <<>>
        /\ response[1].focus_area \in Tags
        /\ (request[1].focus_area # None /\ request[1].focus_area # ""
              /\ request[1].focus_area \notin Tags)
              => response[1].focus_area = "fitness"

\* C6: classify_intent returns the tag of the first keyword set, in the
\* order fitness, nutrition, resilience, that has a keyword occurring in
\* the lower-cased message, and fitness when no set has one.
C6_ClassifyFirstMatch ==
    (Classified /\ ~Truthy(request[1].focus_area)) =>
        LET lowered == lower(request[1].message)
            hit(S) == \E k \in S : Contains(lowered, k)
            tag == state["focus_area"]
        IN  /\ hit(FITNESS_KEYWORDS) => tag = "fitness"
            /\ (~hit(FITNESS_KEYWORDS) /\ hit(NUTRITION_KEYWORDS))
                  => tag = "nutrition"
            /\ (~hit(FITNESS_KEYWORDS) /\ ~hit(NUTRITION_KEYWORDS)
                  /\ hit(RESILIENCE_KEYWORDS)) => tag = "resilience"
            /\ (~hit(FITNESS_KEYWORDS) /\ ~hit(NUTRITION_KEYWORDS)
                  /\ ~hit(RESILIENCE_KEYWORDS)) => tag = "fitness"

\* a message with both a fitness and a nutrition keyword, the nutrition one
\* first and in mixed case
C6_Witness ==
    /\ Classified
    /\ request[1].focus_area = None
    /\ request[1].message = <<"M","e","a","l","r","u","n">>
    /\ state["focus_area"] = "fitness"

\* C7: when a webhook URL is configured, the body /sync POSTs carries the
\* caller's timestamp when one was provided and otherwise a server-generated
\* current-UTC timestamp; it is never absent.
C7_PostedTimestamp ==
    (pc = "done" /\ payload # <<>> /\ WEBHOOK_URL # "") =>
        /\ posted # <<>>
        /\ posted[1].timestamp # None
        /\ IF payload[1].timestamp # None
           THEN posted[1].timestamp = payload[1].timestamp
           ELSE posted[1].timestamp \in NowStamps

\* the final state and the response of the workflow run on a server without
\* a Persistence Sink
SinkFreeState(req) ==
    LET now == CHOOSE n \in NowStamps : TRUE
    IN  wellness_node(intent_classifier_node(start_node(CoachStateOf(req))),
                      FALSE, "ok", now).state

\* C8: the response to a /coach request is the same whether the sink is
\* unconfigured, its insert succeeds or its insert raises: a sink failure
\* never reaches the caller and changes no field of the final state or of
\* the response.
C8_SinkFailureInvisible ==
    CoachDone =>
        /\ http_status = 200
        /\ state = SinkFreeState(request[1])
        /\ response = << CoachResponseOf(SinkFreeState(request[1])) >>

\* an insert that raised, behind a complete answer
C8_Witness ==
    /\ CoachDone
    /\ supabase_client
    /\ inserted # <<>>
    /\ inserted[1].outcome = "exception"
    /\ http_status = 200
    /\ response # <<>>
    /\ response[1].ready_to_sync = TRUE

\* C9: a resolved focus_area outside the three tags, with no safety flag, is
\* treated as fitness throughout: the router dispatches to fitness_node and
\* recommended_actions is the fitness list.
C9_UnknownFocusIsFitness ==
    (Classified /\ state["focus_area"] \notin Tags
                /\ state["safety_flag"] = None) =>
        /\ pc \in { "fitness_node", "nutrition_node", "resilience_node" }
              => pc = "fitness_node"
        /\ (pc = "done" /\ response # <<>>)
              => /\ response[1].recommended_actions = FitnessActions
                 /\ response[1].recommended_actions
                       = recommendations_for_focus("fitness")

\* C10: the sink is invoked at most once per /coach request, and only if the
\* response returned has ready_to_sync = true; no record is written for a
\* request whose message raised the safety flag.
C10_SinkOnlyWhenReady ==
    CoachDone =>
        /\ Len(inserted) <= 1
        /\ inserted # <<>> =>
              /\ response # <<>>
              /\ response[1].ready_to_sync = TRUE
              /\ response[1].safety_flag = None

====
